---- MODULE Spec2Model ----
(***************************************************************************)
(* Receipt-correlation engine of WhatsAppAgent (app/main.py and the        *)
(* modules it calls): the pending-image cache, the receipt store, the      *)
(* fuzzy matcher, the encryption boundary and the forward step.            *)
(*                                                                         *)
(* Conventions.  Python None and the empty string are both falsy in every  *)
(* test the code makes on them; None is the string "None" here.  A text is *)
(* a sequence of whitespace-separated words.  Byte strings are sequences   *)
(* of numbers.  uuid4 values are fresh: a receipt id is the receipt's row  *)
(* number and an image path is the file's number.                          *)
(***************************************************************************)
EXTENDS Integers, Sequences, FiniteSets, TLC

VARIABLES
    now,                 \* datetime.now(), in seconds
    recent_image_cache,  \* main.py:47  {(group_id, sender_id): {url, timestamp}}
    receipts,            \* table receipts, in rowid (insertion) order
    events,              \* table events, in rowid order
    files,               \* IMAGES_DIR: image_path -> bytes written
    delivered,           \* the calls forward_to_bot received, in order
    cipher_suite,        \* encryption.py:7-11  TRUE iff ENCRYPTION_KEY is set
    last,                \* what log_print reported for the last message handled
    handled,             \* number of messages handled so far
    threads,             \* the request threads inside the claim branch
    batch,               \* the webhook delivery being handled: its messages and the loop's position
    probe,               \* an input handed to a pure function, and what came back
    worker               \* telegram_worker.py: the TelegramWorker object and its thread

vars == <<now, recent_image_cache, receipts, events, files, delivered, cipher_suite, last, handled, threads,
          batch, probe, worker>>

\* The state outside the message loop's reach.
aside == <<probe, worker>>

None == "None"

\* -------------------------------------------------------------------------
\* Bounds of the model
\* -------------------------------------------------------------------------
TickStep == 120      \* seconds the clock advances in one Tick
MaxTime == 240       \* the clock stops here
MaxReceipts == 2     \* no claim is stored once the store holds this many
MaxMessages == 3     \* messages handled in one run

\* -------------------------------------------------------------------------
\* Program constants
\* -------------------------------------------------------------------------
CACHE_EXPIRATION_SECONDS == 120
MATCH_THRESHOLD == 80
top_n_default == 100
threshold_default == 60

\* -------------------------------------------------------------------------
\* Inputs
\* -------------------------------------------------------------------------
\* A chat id is a sequence of parts, so that where the group marker stands in
\* it can be told.  None and "" are <<>>; NotAString is a value that is not a
\* string (a number, an object).
Marker == "@g.us"
G1 == <<"120363403036388430", Marker>>
G2 == <<"group2", Marker>>
G3 == <<"group3", Marker>>
Direct == <<"u1", "@c.us">>
MarkerInside == <<"x", Marker, ".u1", "@c.us">>
NoChat == <<>>
NotAString == <<"<int>">>
S1 == "s1@c.us"
S2 == "s2@c.us"
U1 == "http://waha/f1.jpg"
U2 == "http://waha/f2.jpg"

ChatIds == {G1, G2, Direct}
Urls == {U1, U2}

\* Message bodies, as word sequences.
Texts == {
    <<>>,
    <<"recc", "ana">>,
    <<"hi", "Recc", "Anna">>,
    <<"recc">>,
    <<"ana">>,
    <<"an">>,
    <<"ann">>,
    <<"a">> }

\* The bodies of the messages delivered; the other texts are queries the
\* matcher is evaluated on.
MessageTexts == Texts \ { <<"recc">>, <<"a">>, <<"ann">> }

\* Who writes where.
Origins == { <<G1, S1>>, <<G1, S2>>, <<G2, S1>>, <<Direct, S1>> }

\* The normalized messages a webhook delivery can carry (main.py:197-205).
Messages ==
    { [from |-> o[1], author |-> o[2], body |-> t, fileUrl |-> u] :
        o \in Origins, t \in MessageTexts, u \in Urls \cup {None} }

\* -------------------------------------------------------------------------
\* Words: what re and fuzzywuzzy see of them
\* -------------------------------------------------------------------------
\* The word lower-cased, as letters numbered a=1 .. z=26.
Spell(w) ==
    CASE w = "recc" -> <<18, 5, 3, 3>>
      [] w = "Recc" -> <<18, 5, 3, 3>>
      [] w = "hi"   -> <<8, 9>>
      [] w = "ana"  -> <<1, 14, 1>>
      [] w = "Anna" -> <<1, 14, 14, 1>>
      [] w = "an"   -> <<1, 14>>
      [] w = "ann"  -> <<1, 14, 14>>
      [] w = "a"    -> <<1>>

\* re.IGNORECASE match of the word against the keyword "recc".
IsRecc(w) == Spell(w) = Spell("recc")

\* re.search(r"\brecc\s+(.+)", text, re.IGNORECASE), then group(1).strip()
\* (main.py:390-392): the words after the first keyword that has a word after
\* it; <<>> when there is no match (customer_name stays None).
RECURSIVE FirstRecc(_, _)
FirstRecc(text, i) ==
    IF i >= Len(text) THEN 0
    ELSE IF IsRecc(text[i]) THEN i
    ELSE FirstRecc(text, i + 1)

\* customer_name_of taking m.group(0), the keyword included.
customer_name_with_keyword(text) ==
    LET i == FirstRecc(text, 1)
    IN  IF i = 0 THEN <<>> ELSE SubSeq(text, i, Len(text))

customer_name_of(text) ==
    LET i == FirstRecc(text, 1)
    IN  IF i = 0 THEN <<>> ELSE SubSeq(text, i + 1, Len(text))

\* -------------------------------------------------------------------------
\* fuzz.token_sort_ratio (utils.py:16)
\* -------------------------------------------------------------------------
RECURSIVE LexLeq(_, _)
LexLeq(a, b) ==
    IF a = <<>> THEN TRUE
    ELSE IF b = <<>> THEN FALSE
    ELSE IF Head(a) < Head(b) THEN TRUE
    ELSE IF Head(a) > Head(b) THEN FALSE
    ELSE LexLeq(Tail(a), Tail(b))

RECURSIVE InsertSorted(_, _)
InsertSorted(w, sorted) ==
    IF sorted = <<>> THEN <<w>>
    ELSE IF LexLeq(w, Head(sorted)) THEN <<w>> \o sorted
    ELSE <<Head(sorted)>> \o InsertSorted(w, Tail(sorted))

RECURSIVE SortTokens(_)
SortTokens(tokens) ==
    IF tokens = <<>> THEN <<>>
    ELSE InsertSorted(Head(tokens), SortTokens(Tail(tokens)))

\* " ".join(tokens), the space being letter 0.
RECURSIVE JoinTokens(_)
JoinTokens(tokens) ==
    IF tokens = <<>> THEN <<>>
    ELSE IF Len(tokens) = 1 THEN Head(tokens)
    ELSE Head(tokens) \o <<0>> \o JoinTokens(Tail(tokens))

\* fuzzywuzzy's _process_and_sort: lower-case, split, sort the tokens, join.
process_and_sort(text) ==
    JoinTokens(SortTokens([i \in 1..Len(text) |-> Spell(text[i])]))

\* Number of matched characters M of the two strings (the longest common
\* subsequence: what python-Levenshtein's ratio counts; difflib's matching
\* blocks give the same M on every pair of strings of this model).
RECURSIVE Matches(_, _)
Matches(a, b) ==
    IF a = <<>> \/ b = <<>> THEN 0
    ELSE IF Head(a) = Head(b) THEN 1 + Matches(Tail(a), Tail(b))
    ELSE LET x == Matches(Tail(a), b)
             y == Matches(a, Tail(b))
         IN  IF x >= y THEN x ELSE y

\* int(round(100 * 2.0 * M / T)), Python 3 rounding half to even.
intr_ratio(m, t) ==
    LET q == (200 * m) \div t
        r == (200 * m) % t
    IN  IF 2 * r > t THEN q + 1
        ELSE IF 2 * r = t /\ q % 2 = 1 THEN q + 1
        ELSE q

\* fuzz.ratio with its decorators: equal strings score 100, an empty one 0.
token_sort_ratio(s1, s2) ==
    LET a == process_and_sort(s1)
        b == process_and_sort(s2)
    IN  IF a = b THEN 100
        ELSE IF a = <<>> \/ b = <<>> THEN 0
        ELSE intr_ratio(Matches(a, b), Len(a) + Len(b))

\* The customer names a claim of Texts can store.
Names == { customer_name_of(t) : t \in Texts } \ {<<>>}

\* token_sort_ratio tabulated on the texts and names of the model.
ScoreTable == [q \in Texts, n \in Names |-> token_sort_ratio(q, n)]

\* -------------------------------------------------------------------------
\* Encryption boundary (encryption.py)
\* -------------------------------------------------------------------------
\* Fernet, reduced to what the callers rely on: a token is a version byte
\* (0x80), the bytes enciphered under the key, and an authentication byte;
\* the timestamp and the random IV are left out.
FernetMac(ct) ==
    LET RECURSIVE Sum(_)
        Sum(s) == IF s = <<>> THEN 0 ELSE Head(s) + Sum(Tail(s))
    IN  (Sum(ct) + 91) % 256

FernetEncrypt(data) ==
    LET ct == [i \in 1..Len(data) |-> (data[i] + 7) % 256]
    IN  <<128>> \o ct \o <<FernetMac(ct)>>

FernetValid(token) ==
    /\ Len(token) >= 2
    /\ token[1] = 128
    /\ token[Len(token)] = FernetMac(SubSeq(token, 2, Len(token) - 1))

FernetDecrypt(token) ==
    LET ct == SubSeq(token, 2, Len(token) - 1)
    IN  [i \in 1..Len(ct) |-> (ct[i] + 249) % 256]

\* encrypt_bytes passing empty data through as it does without a key.
encrypt_bytes_skips_empty(cs, data) ==
    IF ~cs \/ data = <<>> THEN data ELSE FernetEncrypt(data)

\* encrypt_bytes (encryption.py:13-16); main.py imports it as encrypt_image.
encrypt_bytes(cs, data) ==
    IF ~cs THEN data ELSE FernetEncrypt(data)

\* decrypt_bytes (encryption.py:18-25); main.py imports it as decrypt_image.
\* ok = FALSE is InvalidToken raised.
decrypt_bytes(cs, token) ==
    IF ~cs THEN [ok |-> TRUE, data |-> token]
    ELSE IF FernetValid(token) THEN [ok |-> TRUE, data |-> FernetDecrypt(token)]
    ELSE [ok |-> FALSE, data |-> <<>>]

\* The bytes the gateway serves at a media URL.
Content(url) == IF url = U1 THEN <<10, 250>> ELSE <<20>>

\* A file read back with its last byte changed on disk.
Tampered(bytes) ==
    IF bytes = <<>> THEN <<1>>
    ELSE [bytes EXCEPT ![Len(bytes)] = (@ + 1) % 256]

\* -------------------------------------------------------------------------
\* Receipt store (database.py)
\* -------------------------------------------------------------------------
\* store_receipt (database.py:47-57): appends the row; the row's id is returned.
store_receipt(rs, customer_name, image_path, source_group, ts) ==
    Append(rs, [id |-> Len(rs) + 1, customer_name |-> customer_name,
                image_path |-> image_path, source_group |-> source_group,
                timestamp |-> ts, forwarded |-> FALSE])

\* get_unforwarded_receipts with WHERE forwarded = 0 left out.
get_all_receipts(rs) == rs

\* get_unforwarded_receipts (database.py:59-64): SELECT * FROM receipts WHERE
\* forwarded = 0.  There is no ORDER BY and no LIMIT; SQLite scans the table
\* in rowid order, which is insertion order since no row is ever deleted.
get_unforwarded_receipts(rs) ==
    SelectSeq(rs, LAMBDA r : ~r.forwarded)

\* get_receipt_by_id (database.py:66-71): the row, or <<>> for None.
get_receipt_by_id(rs, rid) ==
    SelectSeq(rs, LAMBDA r : r.id = rid)

\* mark_receipt_forwarded as SET forwarded = NOT forwarded.
mark_receipt_toggled(rs, rid) ==
    [i \in 1..Len(rs) |->
        IF rs[i].id = rid THEN [rs[i] EXCEPT !.forwarded = ~@] ELSE rs[i]]

\* mark_receipt_forwarded (database.py:73-77): UPDATE ... SET forwarded = 1.
mark_receipt_forwarded(rs, rid) ==
    [i \in 1..Len(rs) |->
        IF rs[i].id = rid THEN [rs[i] EXCEPT !.forwarded = TRUE] ELSE rs[i]]

\* log_event (database.py:91-99): INSERT INTO events.
log_event(ev, action, metadata) ==
    Append(ev, [action |-> action, metadata |-> metadata])

\* -------------------------------------------------------------------------
\* Fuzzy matcher (utils.py)
\* -------------------------------------------------------------------------
\* best_from with score >= best_score: the last of equal candidates wins.
RECURSIVE best_from_last_wins(_, _, _, _, _)
best_from_last_wins(pool, query, i, best_match, best_score) ==
    IF i > Len(pool) THEN [id |-> best_match, score |-> best_score]
    ELSE LET score == ScoreTable[query, pool[i].customer_name]
         IN  IF score >= best_score
             THEN best_from_last_wins(pool, query, i + 1, pool[i].id, score)
             ELSE best_from_last_wins(pool, query, i + 1, best_match, best_score)

\* The loop of find_match_in_db (utils.py:13-19) from candidate i on.
RECURSIVE best_from(_, _, _, _, _)
best_from(pool, query, i, best_match, best_score) ==
    IF i > Len(pool) THEN [id |-> best_match, score |-> best_score]
    ELSE LET score == ScoreTable[query, pool[i].customer_name]
         IN  IF score > best_score
             THEN best_from(pool, query, i + 1, pool[i].id, score)
             ELSE best_from(pool, query, i + 1, best_match, best_score)

\* The candidates of find_match_in_db (utils.py:12).  The line asks
\* list_unforwarded_receipts(limit=top_n) for them, a name database.py does
\* not define: the store's listing of the unforwarded receipts is
\* get_unforwarded_receipts, which takes no limit.
candidate_pool(rs, top_n) == get_unforwarded_receipts(rs)

\* find_match_in_db (utils.py:7-23).  id 0 is None.
find_match_in_db(rs, customer_name, top_n, threshold) ==
    LET pool == candidate_pool(rs, top_n)
        best == best_from(pool, customer_name, 1, 0, 0)
    IN  IF best.score >= threshold THEN best
        ELSE [id |-> 0, score |-> best.score]

\* -------------------------------------------------------------------------
\* Pending-image cache (main.py:47, 400-418, 437-440)
\* -------------------------------------------------------------------------
cache_del(cache, key) == [k \in (DOMAIN cache) \ {key} |-> cache[k]]

\* The assignment of main.py:440 as a setdefault: an entry already there stays.
cache_put_keeps_first(cache, key, url, t) ==
    IF key \in DOMAIN cache THEN cache
    ELSE [k \in (DOMAIN cache) \cup {key} |->
             IF k = key THEN [url |-> url, timestamp |-> t] ELSE cache[k]]

\* recent_image_cache[cache_key] = {"url": ..., "timestamp": datetime.now()}
cache_put(cache, key, url, t) ==
    [k \in (DOMAIN cache) \cup {key} |->
        IF k = key THEN [url |-> url, timestamp |-> t] ELSE cache[k]]

\* cache_take with the del of main.py:410 left out.
cache_take_keeps_entry(cache, key, t) ==
    IF key \notin DOMAIN cache THEN [url |-> None, cache |-> cache]
    ELSE LET cached == cache[key]
             age == t - cached.timestamp
         IN  IF age <= CACHE_EXPIRATION_SECONDS
             THEN [url |-> cached.url, cache |-> cache]
             ELSE [url |-> None, cache |-> cache_del(cache, key)]

\* cache_take with the age test of main.py:406 left out.
cache_take_any_age(cache, key, t) ==
    IF key \notin DOMAIN cache THEN [url |-> None, cache |-> cache]
    ELSE [url |-> cache[key].url, cache |-> cache_del(cache, key)]

\* cache_take on a cache looked up by group alone: the latest entry of the
\* key's group, whoever sent it.
cache_take_same_group(cache, key, t) ==
    LET same == { k \in DOMAIN cache : k[1] = key[1] }
    IN  IF same = {} THEN [url |-> None, cache |-> cache]
        ELSE LET k == CHOOSE k \in same :
                         \A k2 \in same : cache[k2].timestamp <= cache[k].timestamp
                 age == t - cache[k].timestamp
             IN  IF age <= CACHE_EXPIRATION_SECONDS
                 THEN [url |-> cache[k].url, cache |-> cache_del(cache, k)]
                 ELSE [url |-> None, cache |-> cache_del(cache, k)]

\* main.py:401-418: the image a claim without media resolves from the cache,
\* and the cache after the lookup.
cache_take(cache, key, t) ==
    IF key \notin DOMAIN cache THEN [url |-> None, cache |-> cache]
    ELSE LET cached == cache[key]
             age == t - cached.timestamp
         IN  IF age <= CACHE_EXPIRATION_SECONDS
             THEN [url |-> cached.url, cache |-> cache_del(cache, key)]
             ELSE [url |-> None, cache |-> cache_del(cache, key)]

\* -------------------------------------------------------------------------
\* Forward step (main.py:310-332)
\* -------------------------------------------------------------------------
\* What the disk gives when the receipt's file is read, and whether
\* forward_to_bot returns: the environment's part in one forward.
ReadOutcomes == {"intact", "missing", "tampered"}

\* forward_receipt_to_telegram_and_mark marking before it delivers.
forward_marks_first(rs, dl, fs, cs, receipt_row, rd, deliver_ok) ==
    LET path == receipt_row.image_path
        bytes == IF rd = "tampered" THEN Tampered(fs[path]) ELSE fs[path]
        opened == decrypt_bytes(cs, bytes)
        metadata == [receipt_id |-> receipt_row.id,
                     customer_name |-> receipt_row.customer_name,
                     source_group |-> receipt_row.source_group,
                     timestamp |-> receipt_row.timestamp]
    IN  IF rd = "missing" \/ path \notin DOMAIN fs
        THEN [receipts |-> rs, delivered |-> dl, result |-> "file_missing"]
        ELSE IF ~opened.ok
        THEN [receipts |-> rs, delivered |-> dl, result |-> "forward_failed"]
        ELSE IF ~deliver_ok
        THEN [receipts |-> mark_receipt_forwarded(rs, receipt_row.id),
              delivered |-> dl, result |-> "forward_failed"]
        ELSE [receipts |-> mark_receipt_forwarded(rs, receipt_row.id),
              delivered |-> Append(dl, [image |-> opened.data, metadata |-> metadata]),
              result |-> "forwarded"]

\* forward_receipt_to_telegram_and_mark (main.py:310-332).  result is the
\* log line: "forwarded" (328), "file_missing" (314), "forward_failed" (331).
forward_receipt_to_telegram_and_mark(rs, dl, fs, cs, receipt_row, rd, deliver_ok) ==
    LET path == receipt_row.image_path
        bytes == IF rd = "tampered" THEN Tampered(fs[path]) ELSE fs[path]
        opened == decrypt_bytes(cs, bytes)
        metadata == [receipt_id |-> receipt_row.id,
                     customer_name |-> receipt_row.customer_name,
                     source_group |-> receipt_row.source_group,
                     timestamp |-> receipt_row.timestamp]
    IN  IF rd = "missing" \/ path \notin DOMAIN fs
        THEN [receipts |-> rs, delivered |-> dl, result |-> "file_missing"]
        ELSE IF ~opened.ok \/ ~deliver_ok
        THEN [receipts |-> rs, delivered |-> dl, result |-> "forward_failed"]
        ELSE [receipts |-> mark_receipt_forwarded(rs, receipt_row.id),
              delivered |-> Append(dl, [image |-> opened.data, metadata |-> metadata]),
              result |-> "forwarded"]

\* -------------------------------------------------------------------------
\* The webhook's loop body (main.py:374-459), one message at a time
\* -------------------------------------------------------------------------
\* The test of main.py:383 as a suffix test: chat_id.endswith("@g.us").
is_group_chat_by_suffix(chat_id) ==
    /\ chat_id # NoChat
    /\ chat_id # NotAString
    /\ chat_id[Len(chat_id)] = Marker

\* main.py:383: chat_id is a non-empty string and "@g.us" in chat_id.
is_group_chat(chat_id) ==
    /\ chat_id # NoChat
    /\ chat_id # NotAString
    /\ \E i \in 1..Len(chat_id) : chat_id[i] = Marker

\* A sender id that is not hashable (a JSON object): main.py:200 passes
\* lm_data.get("author") on whatever it is.
Unhashable == "{object}"
hashable(sender_id) == sender_id # Unhashable

Idle == [log |-> "idle", found |-> "n/a", query |-> <<>>]

\* The branches with the test for media ahead of the test for a claim.
branch_of_media_first(msg) ==
    IF ~is_group_chat(msg.from) THEN "skip"
    ELSE IF msg.fileUrl # None THEN "media"
    ELSE IF customer_name_of(msg.body) # <<>> THEN "claim"
    ELSE IF msg.body # <<>> THEN "query"
    ELSE "none"

\* The branch the loop body takes for a message (main.py:383, 396, 438, 445).
branch_of(msg) ==
    IF ~is_group_chat(msg.from) THEN "skip"
    ELSE IF customer_name_of(msg.body) # <<>> THEN "claim"
    ELSE IF msg.fileUrl # None THEN "media"
    ELSE IF msg.body # <<>> THEN "query"
    ELSE "none"

\* main.py:383-385
skip_branch(msg) ==
    /\ handled < MaxMessages
    /\ handled' = handled + 1
    /\ branch_of(msg) = "skip"
    /\ last' = [log |-> "skipped", found |-> "n/a", query |-> <<>>]
    /\ UNCHANGED <<now, recent_image_cache, receipts, events, files, delivered, cipher_suite, threads>>

SkipMessage(msg) == skip_branch(msg) /\ UNCHANGED <<batch, probe, worker>>

\* The image of a claim with the cache looked up, and its entry consumed,
\* whether or not the claim has media attached.
resolve_image_always_takes(cache, media_url, key, t) ==
    LET took == cache_take(cache, key, t)
    IN  IF media_url # None THEN [url |-> media_url, cache |-> took.cache]
        ELSE took

\* main.py:398-418: the attached media if there is one, and only without it
\* the lookup in the cache.
resolve_image(cache, media_url, key, t) ==
    IF media_url # None THEN [url |-> media_url, cache |-> cache]
    ELSE cache_take(cache, key, t)

\* What the download and the write of the image file do.
StoreOutcomes == {"ok", "download_error", "write_error"}

\* The claim branch with the consumed entry put back when download, seal or
\* write raise.
claim_branch_restores(msg, outcome) ==
    /\ handled < MaxMessages
    /\ handled' = handled + 1
    /\ branch_of(msg) = "claim"
    /\ LET customer_name == customer_name_of(msg.body)
           cache_key == <<msg.from, msg.author>>
           took == resolve_image(recent_image_cache, msg.fileUrl, cache_key, now)
           found == IF msg.fileUrl # None THEN "attached"
                    ELSE IF cache_key \notin DOMAIN recent_image_cache THEN "miss"
                    ELSE IF took.url # None THEN "hit"
                    ELSE "expired"
           image_path == Len(files) + 1
       IN  IF msg.fileUrl = None /\ ~hashable(msg.author)
           THEN \* recent_image_cache.get raises TypeError inside the try
                /\ outcome = "ok"
                /\ last' = [log |-> "error", found |-> "unhashable", query |-> <<>>]
                /\ UNCHANGED <<recent_image_cache, receipts, events, files>>
           ELSE
           /\ recent_image_cache' =
                  IF took.url # None /\ outcome # "ok" THEN recent_image_cache ELSE took.cache
           /\ IF took.url = None
              THEN /\ outcome = "ok"
                   /\ last' = [log |-> "no_image", found |-> found, query |-> <<>>]
                   /\ UNCHANGED <<receipts, events, files>>
              ELSE IF outcome # "ok"
              THEN /\ last' = [log |-> "error", found |-> found, query |-> <<>>]
                   /\ UNCHANGED <<receipts, events, files>>
              ELSE /\ Len(receipts) < MaxReceipts
                   /\ files' = Append(files, encrypt_bytes(cipher_suite, Content(took.url)))
                   /\ receipts' = store_receipt(receipts, customer_name, image_path, msg.from, now)
                   /\ events' = log_event(events, "receipt_stored",
                                    [receipt_id |-> Len(receipts) + 1, customer |-> customer_name])
                   /\ last' = [log |-> "stored", found |-> found, query |-> <<>>]
    /\ UNCHANGED <<now, delivered, cipher_suite, threads>>

\* main.py:396-435
claim_branch(msg, outcome) ==
    /\ handled < MaxMessages
    /\ handled' = handled + 1
    /\ branch_of(msg) = "claim"
    /\ LET customer_name == customer_name_of(msg.body)
           cache_key == <<msg.from, msg.author>>
           took == resolve_image(recent_image_cache, msg.fileUrl, cache_key, now)
           found == IF msg.fileUrl # None THEN "attached"
                    ELSE IF cache_key \notin DOMAIN recent_image_cache THEN "miss"
                    ELSE IF took.url # None THEN "hit"
                    ELSE "expired"
           image_path == Len(files) + 1
       IN  IF msg.fileUrl = None /\ ~hashable(msg.author)
           THEN \* recent_image_cache.get raises TypeError inside the try
                /\ outcome = "ok"
                /\ last' = [log |-> "error", found |-> "unhashable", query |-> <<>>]
                /\ UNCHANGED <<recent_image_cache, receipts, events, files>>
           ELSE
           /\ recent_image_cache' = took.cache
           /\ IF took.url = None
              THEN /\ outcome = "ok"
                   /\ last' = [log |-> "no_image", found |-> found, query |-> <<>>]
                   /\ UNCHANGED <<receipts, events, files>>
              ELSE IF outcome # "ok"
              THEN /\ last' = [log |-> "error", found |-> found, query |-> <<>>]
                   /\ UNCHANGED <<receipts, events, files>>
              ELSE /\ Len(receipts) < MaxReceipts
                   /\ files' = Append(files, encrypt_bytes(cipher_suite, Content(took.url)))
                   /\ receipts' = store_receipt(receipts, customer_name, image_path, msg.from, now)
                   /\ events' = log_event(events, "receipt_stored",
                                    [receipt_id |-> Len(receipts) + 1, customer |-> customer_name])
                   /\ last' = [log |-> "stored", found |-> found, query |-> <<>>]
    /\ UNCHANGED <<now, delivered, cipher_suite, threads>>

ClaimMessage(msg, outcome) == claim_branch(msg, outcome) /\ UNCHANGED <<batch, probe, worker>>

\* main.py:437-442
media_branch(msg) ==
    /\ handled < MaxMessages
    /\ handled' = handled + 1
    /\ branch_of(msg) = "media"
    /\ hashable(msg.author)
    /\ recent_image_cache' =
           cache_put(recent_image_cache, <<msg.from, msg.author>>, msg.fileUrl, now)
    /\ last' = [log |-> "cached",
                found |-> IF <<msg.from, msg.author>> \in DOMAIN recent_image_cache
                          THEN "replaced" ELSE "n/a",
                query |-> <<>>]
    /\ UNCHANGED <<now, receipts, events, files, delivered, cipher_suite, threads>>

BareMediaMessage(msg) == media_branch(msg) /\ UNCHANGED <<batch, probe, worker>>

\* The test of main.py:451 without the caller's threshold.
is_match_any_score(m) == m.id # 0

\* main.py:451: matched_id and score >= MATCH_THRESHOLD
is_match(m) == m.id # 0 /\ m.score >= MATCH_THRESHOLD

\* main.py:444-459.  The call is find_match_in_db(text, conn): the connection
\* arrives as top_n and the matcher's own threshold keeps its default.
query_branch(msg, rd, deliver_ok) ==
    /\ handled < MaxMessages
    /\ handled' = handled + 1
    /\ branch_of(msg) = "query"
    /\ LET m == find_match_in_db(receipts, msg.body, "conn", threshold_default)
           receipt == get_receipt_by_id(receipts, m.id)
       IN  IF is_match(m)
           THEN IF receipt # <<>>
                THEN LET f == forward_receipt_to_telegram_and_mark(
                                  receipts, delivered, files, cipher_suite,
                                  receipt[1], rd, deliver_ok)
                     IN  /\ receipts' = f.receipts
                         /\ delivered' = f.delivered
                         /\ last' = [log |-> f.result, found |-> "n/a", query |-> msg.body]
                ELSE /\ rd = "intact" /\ deliver_ok
                     /\ last' = [log |-> "match_gone", found |-> "n/a", query |-> msg.body]
                     /\ UNCHANGED <<receipts, delivered>>
           ELSE /\ rd = "intact" /\ deliver_ok
                /\ last' = [log |-> "no_match", found |-> "n/a", query |-> msg.body]
                /\ UNCHANGED <<receipts, delivered>>
    /\ UNCHANGED <<now, recent_image_cache, events, files, cipher_suite, threads>>

QueryMessage(msg, rd, deliver_ok) == query_branch(msg, rd, deliver_ok) /\ UNCHANGED <<batch, probe, worker>>

\* A group message with no text and no media: no branch of the loop body runs.
empty_branch(msg) ==
    /\ handled < MaxMessages
    /\ handled' = handled + 1
    /\ branch_of(msg) = "none"
    /\ last' = [log |-> "ignored", found |-> "n/a", query |-> <<>>]
    /\ UNCHANGED <<now, recent_image_cache, receipts, events, files, delivered, cipher_suite, threads>>

EmptyMessage(msg) == empty_branch(msg) /\ UNCHANGED <<batch, probe, worker>>

\* Time passes between two messages.
Tick ==
    /\ now + TickStep <= MaxTime
    /\ now' = now + TickStep
    /\ last' = Idle
    /\ UNCHANGED <<recent_image_cache, receipts, events, files, delivered, cipher_suite, handled, threads>>
    /\ UNCHANGED <<batch, probe, worker>>

\* The threads of the (threaded) development server that handle deliveries
\* at the same time.
Threads == {"t1", "t2"}
IdleThread == [pc |-> "idle", key |-> <<NoChat, None>>, name |-> <<>>,
               cached |-> [url |-> None, timestamp |-> 0], url |-> None,
               receipt |-> <<>>]

\* No delivery is being handled, no function is probed, no worker is built.
NoBatch == [msgs |-> <<>>, idx |-> 0, status |-> "none"]
NoProbe == [fn |-> "none"]
NoWorker == [pc |-> "none"]

\* The engine at start-up: empty cache, empty tables, no image file.
Start ==
    /\ now = 0
    /\ recent_image_cache = [k \in {} |-> None]
    /\ receipts = <<>>
    /\ events = <<>>
    /\ files = <<>>
    /\ delivered = <<>>
    /\ cipher_suite \in BOOLEAN
    /\ last = Idle
    /\ handled = 0
    /\ threads = [t \in Threads |-> IdleThread]

Init ==
    /\ Start
    /\ batch = NoBatch
    /\ probe = NoProbe
    /\ worker = NoWorker

Next ==
    \/ Tick
    \/ \E msg \in Messages : SkipMessage(msg)
    \/ \E msg \in Messages, outcome \in StoreOutcomes : ClaimMessage(msg, outcome)
    \/ \E msg \in Messages : BareMediaMessage(msg)
    \/ \E msg \in Messages, rd \in ReadOutcomes, deliver_ok \in BOOLEAN :
           QueryMessage(msg, rd, deliver_ok)
    \/ \E msg \in Messages : EmptyMessage(msg)

Spec == Init /\ [][Next]_vars

\* -------------------------------------------------------------------------
\* Seal and open on their own (encryption.py:13-25)
\* -------------------------------------------------------------------------
MaxBytes == 3        \* length of the byte strings sealed
Bytes == {0, 7, 249, 255}
ByteStrings == UNION { [1..n -> Bytes] : n \in 0..MaxBytes }

InitSeal ==
    /\ Start
    /\ batch = NoBatch
    /\ worker = NoWorker
    /\ \E x \in ByteStrings : probe = [fn |-> "seal", arg |-> x, stage |-> "input"]

S_Seal ==
    /\ probe.fn = "seal"
    /\ probe.stage = "input"
    /\ probe' = [fn |-> "seal", arg |-> probe.arg, stage |-> "sealed",
                 token |-> encrypt_bytes(cipher_suite, probe.arg)]
    /\ UNCHANGED <<now, recent_image_cache, receipts, events, files, delivered,
                   cipher_suite, last, handled, threads, batch, worker>>

S_Open ==
    /\ probe.fn = "seal"
    /\ probe.stage = "sealed"
    /\ probe' = [fn |-> "seal", arg |-> probe.arg, stage |-> "opened",
                 token |-> probe.token,
                 out |-> decrypt_bytes(cipher_suite, probe.token)]
    /\ UNCHANGED <<now, recent_image_cache, receipts, events, files, delivered,
                   cipher_suite, last, handled, threads, batch, worker>>

NextSeal == S_Seal \/ S_Open

SpecSeal == InitSeal /\ [][NextSeal]_vars

\* -------------------------------------------------------------------------
\* The Telegram worker (telegram_worker.py)
\* A task is the dict put on the queue, with the position of its put as id;
\* the sentinel is the None that stop() puts.  worker.log lists the sends
\* the thread started and how each ended; worker.stop_mark is the number of
\* tasks enqueued when stop() was called (-1 before).
\* -------------------------------------------------------------------------
MaxTasks == 3        \* tasks enqueued in one run
TaskTypes == {"document", "message"}
Sentinel == [id |-> 0, type |-> "None"]

\* TelegramWorker.__init__ (telegram_worker.py:20-25).
NewWorker ==
    [pc |-> "new", running |-> FALSE, q |-> <<>>, cur |-> Sentinel,
     log |-> <<>>, enqueued |-> 0, stop_pc |-> "idle", stop_mark |-> -1]

InitWorker ==
    /\ Start
    /\ batch = NoBatch
    /\ probe = NoProbe
    /\ worker = NewWorker

rest_unchanged ==
    UNCHANGED <<now, recent_image_cache, receipts, events, files, delivered,
                cipher_suite, last, handled, threads, batch, probe>>

\* A queue that hands out the newest item first.
q_get_lifo(q) == [task |-> q[Len(q)], rest |-> SubSeq(q, 1, Len(q) - 1)]

\* queue.Queue().get on a non-empty queue: first in, first out
\* (telegram_worker.py:22, 49).
q_get(q) == [task |-> Head(q), rest |-> Tail(q)]

\* queue.Queue() is built without a maxsize (telegram_worker.py:22): 0, which
\* the queue module reads as no limit.
maxsize == 0

\* Queue.put blocks while the queue is full, and a queue with maxsize <= 0
\* is never full.
q_full(q) == maxsize > 0 /\ Len(q) >= maxsize

\* enqueue_document / enqueue_message (telegram_worker.py:91-95): callable
\* at any time, before start() and after stop() included.
enqueue(typ) ==
    /\ worker.pc # "none"
    /\ worker.enqueued < MaxTasks
    /\ ~q_full(worker.q)
    /\ worker' = [worker EXCEPT
                    !.q = Append(@, [id |-> worker.enqueued + 1, type |-> typ]),
                    !.enqueued = @ + 1]
    /\ rest_unchanged

\* start() (telegram_worker.py:27-30).
W_start ==
    /\ worker.pc = "new"
    /\ worker' = [worker EXCEPT !.pc = "starting", !.running = TRUE]
    /\ rest_unchanged

\* _run up to the loop (telegram_worker.py:43-46, 62-63): a client that
\* fails to start ends the thread.
W_client_start(ok) ==
    /\ worker.pc = "starting"
    /\ worker' = [worker EXCEPT !.pc = IF ok THEN "loop" ELSE "crashed"]
    /\ rest_unchanged

\* while self._running (telegram_worker.py:47, 61).
W_check ==
    /\ worker.pc = "loop"
    /\ worker' = [worker EXCEPT !.pc = IF worker.running THEN "get" ELSE "exited"]
    /\ rest_unchanged

\* self._q.get(timeout=1) and the dispatch on its result
\* (telegram_worker.py:48-58, 74, 84).
W_get ==
    /\ worker.pc = "get"
    /\ IF worker.q = <<>>
       THEN worker' = [worker EXCEPT !.pc = "loop"]
       ELSE LET got == q_get(worker.q) IN
            IF got.task = Sentinel
            THEN worker' = [worker EXCEPT !.pc = "exited", !.q = got.rest]
            ELSE worker' = [worker EXCEPT
                              !.pc = "send", !.q = got.rest, !.cur = got.task,
                              !.log = Append(@, [ev |-> "start", id |-> got.task.id,
                                                 type |-> got.task.type])]
    /\ rest_unchanged

\* _send_document / _send_message (telegram_worker.py:70-88): the client
\* call returns or raises, and a raise is logged.
W_send(ok) ==
    /\ worker.pc = "send"
    /\ worker' = [worker EXCEPT
                    !.pc = "loop", !.cur = Sentinel,
                    !.log = Append(@, [ev |-> IF ok THEN "sent" ELSE "failed",
                                       id |-> worker.cur.id,
                                       type |-> worker.cur.type])]
    /\ rest_unchanged

\* stop(), first statement (telegram_worker.py:34); join() needs a started
\* thread.
W_stop_flag ==
    /\ worker.pc \notin {"none", "new"}
    /\ worker.stop_pc = "idle"
    /\ worker' = [worker EXCEPT !.running = FALSE, !.stop_pc = "flagged",
                                !.stop_mark = worker.enqueued]
    /\ rest_unchanged

\* stop(), second statement (telegram_worker.py:35).
W_stop_put ==
    /\ worker.stop_pc = "flagged"
    /\ ~q_full(worker.q)
    /\ worker' = [worker EXCEPT !.q = Append(@, Sentinel), !.stop_pc = "done"]
    /\ rest_unchanged

NextWorker ==
    \/ \E typ \in TaskTypes : enqueue(typ)
    \/ W_start
    \/ \E ok \in BOOLEAN : W_client_start(ok)
    \/ W_check
    \/ W_get
    \/ \E ok \in BOOLEAN : W_send(ok)
    \/ W_stop_flag
    \/ W_stop_put

SpecWorker == InitWorker /\ [][NextWorker]_vars

\* -------------------------------------------------------------------------
\* Messages in and out of scope
\* -------------------------------------------------------------------------
\* config.py:44
MONITORED_GROUPS == {G1, G2}

\* Messages of a monitored group, of a group that is not monitored, of chats
\* that are no group, and of a group without a sender.
ScopeOrigins ==
    { <<G1, S1>>, <<G3, S1>>, <<MarkerInside, S1>>, <<Direct, S1>>,
      <<NoChat, S1>>, <<NotAString, S1>>, <<G1, None>> }
ScopeMessages ==
    { [from |-> o[1], author |-> o[2], body |-> b, fileUrl |-> u] :
          o \in ScopeOrigins, b \in { <<>>, <<"recc", "ana">>, <<"ana">> }, u \in {None, U1} }

NextScope ==
    \/ Tick
    \/ \E msg \in ScopeMessages : SkipMessage(msg)
    \/ \E msg \in ScopeMessages, outcome \in StoreOutcomes : ClaimMessage(msg, outcome)
    \/ \E msg \in ScopeMessages : BareMediaMessage(msg)
    \/ \E msg \in ScopeMessages, rd \in ReadOutcomes, deliver_ok \in BOOLEAN :
           QueryMessage(msg, rd, deliver_ok)
    \/ \E msg \in ScopeMessages : EmptyMessage(msg)

SpecScope == Init /\ [][NextScope]_vars

\* -------------------------------------------------------------------------
\* One webhook delivery with several messages (main.py:344-461)
\* -------------------------------------------------------------------------
MaxBatch == 2        \* messages in one delivery

\* The messages of the deliveries: the branches of the loop body, and a
\* sender id that is a JSON object.
BatchMessages ==
    { [from |-> G1, author |-> S1, body |-> <<"recc", "ana">>, fileUrl |-> U1],
      [from |-> G1, author |-> S1, body |-> <<"recc", "ana">>, fileUrl |-> None],
      [from |-> G1, author |-> S1, body |-> <<>>, fileUrl |-> U1],
      [from |-> G1, author |-> S1, body |-> <<"ana">>, fileUrl |-> None],
      [from |-> G1, author |-> S1, body |-> <<>>, fileUrl |-> None],
      [from |-> Direct, author |-> S1, body |-> <<"ana">>, fileUrl |-> None],
      [from |-> G1, author |-> Unhashable, body |-> <<"recc", "ana">>, fileUrl |-> None],
      [from |-> G1, author |-> Unhashable, body |-> <<>>, fileUrl |-> U1] }

Batches == UNION { [1..n -> BatchMessages] : n \in 0..MaxBatch }

\* main.py:345-372: the delivery is parsed and normalized; an empty list is
\* answered at once.
B_Deliver(msgs) ==
    /\ batch.status # "running"
    /\ handled + Len(msgs) <= MaxMessages
    /\ batch' = [msgs |-> msgs, idx |-> 1,
                 status |-> IF msgs = <<>> THEN "no_messages" ELSE "running"]
    /\ last' = Idle
    /\ UNCHANGED <<now, recent_image_cache, receipts, events, files, delivered,
                   cipher_suite, handled, threads, probe, worker>>

\* main.py:374-459: the loop body on the next message of the delivery.
B_Message(outcome, rd, deliver_ok) ==
    /\ batch.status = "running"
    /\ batch.idx <= Len(batch.msgs)
    /\ LET msg == batch.msgs[batch.idx]
       IN  \/ skip_branch(msg) /\ outcome = "ok" /\ rd = "intact" /\ deliver_ok
           \/ claim_branch(msg, outcome) /\ rd = "intact" /\ deliver_ok
           \/ media_branch(msg) /\ outcome = "ok" /\ rd = "intact" /\ deliver_ok
           \/ query_branch(msg, rd, deliver_ok) /\ outcome = "ok"
           \/ empty_branch(msg) /\ outcome = "ok" /\ rd = "intact" /\ deliver_ok
    /\ batch' = [batch EXCEPT !.idx = @ + 1]
    /\ UNCHANGED <<probe, worker>>

\* main.py:439-440: the cache key of a bare-media message holds an unhashable
\* sender id; the assignment raises TypeError outside every try and the
\* exception leaves webhook().
B_Raise ==
    /\ batch.status = "running"
    /\ batch.idx <= Len(batch.msgs)
    /\ branch_of(batch.msgs[batch.idx]) = "media"
    /\ ~hashable(batch.msgs[batch.idx].author)
    /\ batch' = [batch EXCEPT !.status = "failed"]
    /\ last' = [log |-> "raised", found |-> "n/a", query |-> <<>>]
    /\ UNCHANGED <<now, recent_image_cache, receipts, events, files, delivered,
                   cipher_suite, handled, threads, probe, worker>>

\* main.py:461: the loop is over, the delivery is answered "processed".
B_Return ==
    /\ batch.status = "running"
    /\ batch.idx > Len(batch.msgs)
    /\ batch' = [batch EXCEPT !.status = "processed"]
    /\ last' = Idle
    /\ UNCHANGED <<now, recent_image_cache, receipts, events, files, delivered,
                   cipher_suite, handled, threads, probe, worker>>

NextBatch ==
    \/ Tick
    \/ \E msgs \in Batches : B_Deliver(msgs)
    \/ \E outcome \in StoreOutcomes, rd \in ReadOutcomes, deliver_ok \in BOOLEAN :
           B_Message(outcome, rd, deliver_ok)
    \/ B_Raise
    \/ B_Return

SpecBatch == Init /\ [][NextBatch]_vars

\* -------------------------------------------------------------------------
\* The normalizer (main.py:119-289)
\* -------------------------------------------------------------------------
\* A JSON string is told by what the code asks of it: its length, its length
\* once stripped, whether the stripped string is made of base64 characters and
\* whitespace only, and whether it starts with "/9j/".  JNull is None.
JStr(raw, len, alpha, jpeg) == [t |-> "str", raw |-> raw, len |-> len, alpha |-> alpha, jpeg |-> jpeg]
JNull == [t |-> "null", raw |-> 0, len |-> 0, alpha |-> FALSE, jpeg |-> FALSE]
Blank == JStr(3, 0, FALSE, FALSE)            \* "   "
Caption == JStr(8, 8, TRUE, FALSE)           \* "recc ana"
LongPlain == JStr(250, 250, TRUE, FALSE)     \* 250 letters and spaces
B300 == JStr(300, 300, TRUE, FALSE)          \* 300 base64 characters
B400 == JStr(400, 400, TRUE, FALSE)          \* 400 base64 characters
Jpeg == JStr(12, 12, FALSE, TRUE)            \* "/9j/4AAQ.,;:"
FieldValues == {JNull, Blank, Caption, LongPlain, B300, B400, Jpeg}

\* Python's truth of a candidate, and str.strip().
truthy(v) == v.t = "str" /\ v.raw > 0
strip(v) == [v EXCEPT !.raw = v.len]
EmptyStr == JStr(0, 0, FALSE, FALSE)

\* _looks_like_base64_image (main.py:119-133)
looks_like_base64_image(v) ==
    IF v.t # "str" \/ v.raw = 0 THEN FALSE
    ELSE IF strip(v).jpeg THEN TRUE
    ELSE strip(v).len > 200 /\ strip(v).alpha

\* A message object: its own text fields and those of its "_data" object.
MessageObjects ==
    [body : FieldValues, caption : FieldValues, text : FieldValues, has_data : {TRUE},
     data : [body : FieldValues, caption : FieldValues, text : FieldValues]]
    \cup
    { [body |-> b, caption |-> c, text |-> x, has_data |-> FALSE,
       data |-> [body |-> JNull, caption |-> JNull, text |-> JNull]] :
          b \in FieldValues, c \in FieldValues, x \in FieldValues }

\* main.py:160-170
candidates(lm) ==
    LET lm_data == IF lm.has_data THEN lm.data
                   ELSE [body |-> lm.body, caption |-> lm.caption, text |-> lm.text]
    IN  <<lm.body, lm_data.body, lm_data.caption, lm.caption, lm.text, lm_data.text>>

\* main.py:174-179: the first candidate that is text and does not look like
\* base64 ends the loop, stripped.
RECURSIVE first_readable(_, _)
first_readable(cands, i) ==
    IF i > Len(cands) THEN EmptyStr
    ELSE IF ~truthy(cands[i]) THEN first_readable(cands, i + 1)
    ELSE IF cands[i].t = "str" /\ ~looks_like_base64_image(cands[i]) THEN strip(cands[i])
    ELSE first_readable(cands, i + 1)

\* main.py:183-186: the first candidate that is a string with something left
\* once stripped.
RECURSIVE fallback(_, _)
fallback(cands, i) ==
    IF i > Len(cands) THEN EmptyStr
    ELSE IF cands[i].t = "str" /\ strip(cands[i]).len > 0 THEN strip(cands[i])
    ELSE fallback(cands, i + 1)

\* _normalize_last_message_obj (main.py:136-206), the body it chooses.
normalize_last_message_obj(lm) ==
    LET chosen_body == first_readable(candidates(lm), 1)
    IN  [body |-> IF truthy(chosen_body) THEN chosen_body ELSE fallback(candidates(lm), 1)]

\* A webhook payload, by the shape the extractor dispatches on.
\*   top       what the JSON value is; "str" is a string json.loads does not
\*             turn into an object
\*   event     payload["event"]: absent, the string "message", another string,
\*             or an object whose own "event" is message_create, unread_count
\*             or something else
\*   inner     payload["payload"]
\*   messages  payload["messages"]
\*   data      the "data" of the event object
\*   items     the elements of the messages list, or else of the data list:
\*             "msg" a message object, "wrapped" {"lastMessage": message},
\*             "bare" an object with neither, "str" a string
\*   deep      a "lastMessage" key somewhere else in the payload
ItemKinds == {"msg", "wrapped", "bare", "str"}
MaxItems == 2
ItemLists == UNION { [1..n -> ItemKinds] : n \in 0..MaxItems }
Payloads ==
    [top : {"list", "str", "num", "null"}, event : {"absent"}, inner : {"absent"},
     messages : {"absent"}, data : {"absent"}, items : {<<>>}, deep : {FALSE}]
    \cup
    [top : {"obj"},
     event : {"absent", "message", "other", "message_create", "unread_count", "nested_other"},
     inner : {"absent", "obj", "nonobj"},
     messages : {"absent", "notlist", "list"},
     data : {"absent", "null", "num", "obj", "list"},
     items : ItemLists, deep : BOOLEAN]

Count(items, kinds) == Cardinality({ i \in 1..Len(items) : items[i] \in kinds })
Raised == [raised |-> TRUE, n |-> 0]
Returned(n) == [raised |-> FALSE, n |-> n]

\* extract_messages_from_payload (main.py:209-289): whether it raises, and
\* the number of normalized messages it returns.
extract_messages_from_payload(p) ==
    IF p.top # "obj"
    THEN Raised                                   \* main.py:229 payload.get
    ELSE IF p.event = "message"
    THEN Returned(1)                              \* main.py:229-235
    ELSE IF p.messages = "list"
    THEN Returned(Count(p.items, {"msg", "wrapped", "bare"}))   \* main.py:238-240
    ELSE IF p.event = "message_create"            \* main.py:248-257
    THEN CASE p.data = "absent" -> Returned(0)
           [] p.data \in {"null", "num"} -> Raised      \* for d in data
           [] p.data = "obj" -> Returned(1)             \* iterates the keys
           [] p.data = "list" -> Returned(Len(p.items))
    ELSE IF p.event = "unread_count"              \* main.py:259-268
    THEN CASE p.data = "absent" -> Returned(0)
           [] p.data \in {"null", "num"} -> Raised      \* for item in data
           [] p.data = "obj" -> Raised                  \* a key is a str: item.get
           [] p.data = "list" ->
                  IF Count(p.items, {"str"}) > 0 THEN Raised   \* item.get
                  ELSE Returned(Count(p.items, {"wrapped"}))
    ELSE Returned((IF p.deep THEN 1 ELSE 0)       \* main.py:270-289
                  + (IF p.event = "nested_other" /\ p.data = "list"
                     THEN Count(p.items, {"wrapped"}) ELSE 0))

\* The normalizer called on a payload, or its message step on a message object.
InitNormalizer ==
    /\ Start
    /\ cipher_suite
    /\ batch = NoBatch
    /\ worker = NoWorker
    /\ \/ \E p \in Payloads : probe = [fn |-> "extract", arg |-> p, done |-> FALSE]
       \/ \E lm \in MessageObjects : probe = [fn |-> "normalize", arg |-> lm, done |-> FALSE]

N_Extract ==
    /\ probe.fn = "extract"
    /\ ~probe.done
    /\ probe' = [fn |-> "extract", arg |-> probe.arg, done |-> TRUE,
                 out |-> extract_messages_from_payload(probe.arg)]
    /\ UNCHANGED <<now, recent_image_cache, receipts, events, files, delivered,
                   cipher_suite, last, handled, threads, batch, worker>>

N_Normalize ==
    /\ probe.fn = "normalize"
    /\ ~probe.done
    /\ probe' = [fn |-> "normalize", arg |-> probe.arg, done |-> TRUE,
                 out |-> normalize_last_message_obj(probe.arg)]
    /\ UNCHANGED <<now, recent_image_cache, receipts, events, files, delivered,
                   cipher_suite, last, handled, threads, batch, worker>>

NextNormalizer == N_Extract \/ N_Normalize

SpecNormalizer == InitNormalizer /\ [][NextNormalizer]_vars

\* -------------------------------------------------------------------------
\* Two deliveries handled at the same time (main.py:396-435, step by step)
\* -------------------------------------------------------------------------
\* A request thread enters the claim branch with a claim that has no media.
T_Begin(t, msg) ==
    /\ threads[t].pc = "idle"
    /\ branch_of(msg) = "claim"
    /\ msg.fileUrl = None
    /\ threads' = [threads EXCEPT ![t] =
           [IdleThread EXCEPT !.pc = "get", !.key = <<msg.from, msg.author>>,
                              !.name = customer_name_of(msg.body)]]
    /\ last' = Idle
    /\ UNCHANGED <<now, recent_image_cache, receipts, events, files, delivered,
                   cipher_suite, handled>>
    /\ UNCHANGED <<batch, probe, worker>>

\* main.py:403-404: cached = recent_image_cache.get(cache_key)
T_Get(t) ==
    /\ threads[t].pc = "get"
    /\ threads' = [threads EXCEPT ![t] =
           IF threads[t].key \in DOMAIN recent_image_cache
           THEN [@ EXCEPT !.pc = "age", !.cached = recent_image_cache[threads[t].key]]
           ELSE [@ EXCEPT !.pc = "store"]]
    /\ last' = Idle
    /\ UNCHANGED <<now, recent_image_cache, receipts, events, files, delivered,
                   cipher_suite, handled>>
    /\ UNCHANGED <<batch, probe, worker>>

\* main.py:405-407, 413: the age test on the entry the thread holds.
T_Age(t) ==
    /\ threads[t].pc = "age"
    /\ threads' = [threads EXCEPT ![t] =
           IF now - threads[t].cached.timestamp <= CACHE_EXPIRATION_SECONDS
           THEN [@ EXCEPT !.pc = "del", !.url = threads[t].cached.url]
           ELSE [@ EXCEPT !.pc = "del"]]
    /\ last' = Idle
    /\ UNCHANGED <<now, recent_image_cache, receipts, events, files, delivered,
                   cipher_suite, handled>>
    /\ UNCHANGED <<batch, probe, worker>>

\* main.py:409-412, 415-418: del recent_image_cache[cache_key], KeyError passed.
T_Del(t) ==
    /\ threads[t].pc = "del"
    /\ recent_image_cache' = cache_del(recent_image_cache, threads[t].key)
    /\ threads' = [threads EXCEPT ![t].pc = "store"]
    /\ last' = Idle
    /\ UNCHANGED <<now, receipts, events, files, delivered, cipher_suite, handled>>
    /\ UNCHANGED <<batch, probe, worker>>

\* main.py:420-435: download, seal, write, store_receipt, log_event.
T_Store(t, outcome) ==
    /\ threads[t].pc = "store"
    /\ IF threads[t].url = None
       THEN /\ outcome = "ok"
            /\ last' = [log |-> "no_image", found |-> "n/a", query |-> <<>>]
            /\ UNCHANGED <<receipts, events, files>>
       ELSE IF outcome # "ok"
       THEN /\ last' = [log |-> "error", found |-> "n/a", query |-> <<>>]
            /\ UNCHANGED <<receipts, events, files>>
       ELSE /\ Len(receipts) < MaxReceipts
            /\ files' = Append(files, encrypt_bytes(cipher_suite, Content(threads[t].url)))
            /\ receipts' = store_receipt(receipts, threads[t].name, Len(files) + 1,
                                         threads[t].key[1], now)
            /\ events' = log_event(events, "receipt_stored",
                             [receipt_id |-> Len(receipts) + 1, customer |-> threads[t].name])
            /\ last' = [log |-> "stored", found |-> "hit", query |-> <<>>]
    /\ threads' = [threads EXCEPT ![t] = IdleThread]
    /\ UNCHANGED <<now, recent_image_cache, delivered, cipher_suite, handled>>
    /\ UNCHANGED <<batch, probe, worker>>

\* The deliveries of two senders of one group: an image, or a claim for ana.
ConcMessages ==
    { msg \in Messages : /\ msg.from = G1
                         /\ msg.fileUrl \in {None, U1}
                         /\ msg.body \in { <<>>, <<"recc", "ana">> } }

\* Bare-media messages (handled counts them) and claims in two threads.
NextConc ==
    \/ Tick
    \/ \E msg \in ConcMessages : BareMediaMessage(msg)
    \/ \E t \in Threads, msg \in ConcMessages : T_Begin(t, msg)
    \/ \E t \in Threads : T_Get(t)
    \/ \E t \in Threads : T_Age(t)
    \/ \E t \in Threads : T_Del(t)
    \/ \E t \in Threads, outcome \in StoreOutcomes : T_Store(t, outcome)

SpecConc == Init /\ [][NextConc]_vars

\* -------------------------------------------------------------------------
\* Two queries handled at the same time (main.py:444-459, 310-332).  No lock
\* is taken anywhere in main.py or database.py; each call of database.py
\* opens its own connection and commits on its own.
\* -------------------------------------------------------------------------
\* main.py:447-453: the matcher's read of the store and get_receipt_by_id;
\* the thread goes on with the row it was given.
Q_Match(t, msg) ==
    /\ threads[t].pc = "idle"
    /\ branch_of(msg) = "query"
    /\ LET m == find_match_in_db(receipts, msg.body, "conn", threshold_default)
           receipt == get_receipt_by_id(receipts, m.id)
       IN  IF is_match(m) /\ receipt # <<>>
           THEN /\ threads' = [threads EXCEPT ![t] =
                       [IdleThread EXCEPT !.pc = "forward", !.name = msg.body,
                                          !.receipt = receipt]]
                /\ last' = Idle
           ELSE /\ threads' = threads
                /\ last' = [log |-> IF is_match(m) THEN "match_gone" ELSE "no_match",
                            found |-> "n/a", query |-> msg.body]
    /\ UNCHANGED <<now, recent_image_cache, receipts, events, files, delivered,
                   cipher_suite, handled>>
    /\ UNCHANGED <<batch, probe, worker>>

\* main.py:312-325: the file is read and opened and forward_to_bot runs.
Q_Forward(t, rd, deliver_ok) ==
    /\ threads[t].pc = "forward"
    /\ LET f == forward_receipt_to_telegram_and_mark(
                    receipts, delivered, files, cipher_suite,
                    threads[t].receipt[1], rd, deliver_ok)
       IN  /\ delivered' = f.delivered
           /\ IF f.result = "forwarded"
              THEN /\ threads' = [threads EXCEPT ![t].pc = "mark"]
                   /\ last' = Idle
              ELSE /\ threads' = [threads EXCEPT ![t] = IdleThread]
                   /\ last' = [log |-> f.result, found |-> "n/a",
                               query |-> threads[t].name]
    /\ UNCHANGED <<now, recent_image_cache, receipts, events, files,
                   cipher_suite, handled>>
    /\ UNCHANGED <<batch, probe, worker>>

\* main.py:326-328: mark_receipt_forwarded(receipt_row["id"]).
Q_Mark(t) ==
    /\ threads[t].pc = "mark"
    /\ receipts' = mark_receipt_forwarded(receipts, threads[t].receipt[1].id)
    /\ last' = [log |-> "forwarded", found |-> "n/a", query |-> threads[t].name]
    /\ threads' = [threads EXCEPT ![t] = IdleThread]
    /\ UNCHANGED <<now, recent_image_cache, events, files, delivered,
                   cipher_suite, handled>>
    /\ UNCHANGED <<batch, probe, worker>>

\* Claims with their image attached, and the queries for them.
QueryConcMessages ==
    { msg \in Messages :
        /\ msg.from = G1
        /\ \/ msg.body \in { <<"recc", "ana">>, <<"hi", "Recc", "Anna">> } /\ msg.fileUrl = U1
           \/ msg.body \in { <<"ana">>, <<"an">> } /\ msg.fileUrl = None }

\* Claims are handled one at a time, queries in two threads.
NextConcQuery ==
    \/ \E msg \in QueryConcMessages, outcome \in StoreOutcomes : ClaimMessage(msg, outcome)
    \/ \E t \in Threads, msg \in QueryConcMessages : Q_Match(t, msg)
    \/ \E t \in Threads, rd \in ReadOutcomes, deliver_ok \in BOOLEAN :
           Q_Forward(t, rd, deliver_ok)
    \/ \E t \in Threads : Q_Mark(t)

SpecConcQuery == Init /\ [][NextConcQuery]_vars

\* -------------------------------------------------------------------------
\* The cache over time: one sender's image is cached and that sender writes
\* nothing more, while the clock runs and another sender keeps sending
\* images, claims and queries (main.py:48, 400-418, 437-442).
\* -------------------------------------------------------------------------
QuietKey == <<G1, S1>>
BusyKey == <<G1, S2>>

QuietMedia == [from |-> G1, author |-> S1, body |-> <<>>, fileUrl |-> U1]
BusyMedia == [from |-> G1, author |-> S2, body |-> <<>>, fileUrl |-> U2]
BusyClaim == [from |-> G1, author |-> S2, body |-> <<"recc", "ana">>, fileUrl |-> None]
BusyQuery == [from |-> G1, author |-> S2, body |-> <<"ana">>, fileUrl |-> None]

\* The next deliveries: the count of handled messages starts again.
NextDeliveries ==
    /\ handled = MaxMessages
    /\ handled' = 0
    /\ last' = Idle
    /\ UNCHANGED <<now, recent_image_cache, receipts, events, files, delivered,
                   cipher_suite, threads, batch, probe, worker>>

BusyTraffic ==
    \/ BareMediaMessage(BusyMedia)
    \/ \E outcome \in StoreOutcomes : ClaimMessage(BusyClaim, outcome)
    \/ \E rd \in ReadOutcomes, deliver_ok \in BOOLEAN :
           QueryMessage(BusyQuery, rd, deliver_ok)

NextSweep ==
    \/ Tick
    \/ BareMediaMessage(QuietMedia)
    \/ BusyTraffic
    \/ NextDeliveries

\* Time passes and the deliveries of the other sender are handled, again and
\* again; nothing obliges the quiet sender to write.
SpecSweep ==
    /\ Init
    /\ [][NextSweep]_vars
    /\ WF_vars(Tick)
    /\ WF_vars(BusyTraffic)
    /\ WF_vars(NextDeliveries)

\* -------------------------------------------------------------------------
\* Properties
\* -------------------------------------------------------------------------
\* The words after the first claim keyword that is followed by a word.
NameAfterKeyword(text) ==
    LET at == { i \in 1..(Len(text) - 1) : IsRecc(text[i]) }
    IN  IF at = {} THEN <<>>
        ELSE LET i == CHOOSE i \in at : \A j \in at : i <= j
             IN  [k \in 1..(Len(text) - i) |-> text[i + k]]

KeyOf(msg) == <<msg.from, msg.author>>

\* The messages of each branch.
ClaimsWithoutMedia == { m \in Messages : branch_of(m) = "claim" /\ m.fileUrl = None }
ClaimsWithMedia == { m \in Messages : branch_of(m) = "claim" /\ m.fileUrl # None }
BareMedia == { m \in Messages : branch_of(m) = "media" }
Queries == { m \in Messages : branch_of(m) = "query" }

\* The cache holds an entry for the key that is no older than the TTL.
FreshIn(cache, key, t) ==
    /\ key \in DOMAIN cache
    /\ t - cache[key].timestamp <= CACHE_EXPIRATION_SECONDS

\* receipts' is receipts with one row appended.
OneNewReceipt ==
    /\ Len(receipts') = Len(receipts) + 1
    /\ SubSeq(receipts', 1, Len(receipts)) = receipts
    /\ \A i \in 1..Len(receipts) : receipts[i].id # receipts'[Len(receipts')].id

NewReceipt == receipts'[Len(receipts')]

\* C1: a bare-media message caches its media for its (group, sender); a claim
\* without media from that key, handled while the entry is no older than the
\* TTL and with download, seal and write succeeding, adds exactly one receipt
\* with the claim's name, forwarded = false and the cached image, and leaves
\* no entry for the key, so that a second claim from the key resolves nothing.
C1_ClaimResolvesCachedImage ==
    [][ /\ last'.log = "cached" =>
               \A msg \in BareMedia :
                   BareMediaMessage(msg) =>
                       /\ KeyOf(msg) \in DOMAIN recent_image_cache'
                       /\ recent_image_cache'[KeyOf(msg)] = [url |-> msg.fileUrl, timestamp |-> now]
        /\ last'.log \in {"stored", "no_image"} =>
               \A msg \in ClaimsWithoutMedia :
               ( /\ FreshIn(recent_image_cache, KeyOf(msg), now)
                 /\ ClaimMessage(msg, "ok") )
               => /\ OneNewReceipt
                  /\ NewReceipt.customer_name = NameAfterKeyword(msg.body)
                  /\ NewReceipt.forwarded = FALSE
                  /\ decrypt_bytes(cipher_suite, files'[NewReceipt.image_path])
                         = [ok |-> TRUE, data |-> Content(recent_image_cache[KeyOf(msg)].url)]
                  /\ KeyOf(msg) \notin DOMAIN recent_image_cache'
                  /\ cache_take(recent_image_cache', KeyOf(msg), now').url = None
      ]_vars

C1_Witness ==
    /\ last.log = "stored"
    /\ last.found = "hit"
    /\ Len(receipts) = 1
    /\ receipts[1].forwarded = FALSE
    /\ DOMAIN recent_image_cache = {}

\* C2: a claim with media attached (download, seal and write succeeding) adds
\* exactly one receipt whose customer_name is the text after the keyword,
\* whose source_group is the message's group and whose forwarded is false,
\* and appends one receipt_stored event that refers to the receipt's id.
C2_ClaimWithAttachedMedia ==
    [][ last'.log \in {"stored", "no_image"} =>
        \A msg \in ClaimsWithMedia :
            ClaimMessage(msg, "ok")
            => /\ OneNewReceipt
               /\ NewReceipt.customer_name = NameAfterKeyword(msg.body)
               /\ NewReceipt.customer_name # <<>>
               /\ NewReceipt.source_group = msg.from
               /\ NewReceipt.forwarded = FALSE
               /\ decrypt_bytes(cipher_suite, files'[NewReceipt.image_path])
                      = [ok |-> TRUE, data |-> Content(msg.fileUrl)]
               /\ events' = Append(events,
                      [action |-> "receipt_stored",
                       metadata |-> [receipt_id |-> NewReceipt.id,
                                     customer |-> NameAfterKeyword(msg.body)]])
      ]_vars

C2_Witness ==
    /\ last.log = "stored"
    /\ last.found = "attached"
    /\ Len(receipts) >= 1
    /\ receipts[Len(receipts)].forwarded = FALSE
    /\ events[Len(events)].action = "receipt_stored"
    /\ events[Len(events)].metadata.receipt_id = receipts[Len(receipts)].id

\* C3: a claim without media whose key has no cache entry, or one older than
\* the TTL, resolves no image: no receipt, file or event is added, the
\* expired entry is gone after the read, and no other entry changes.
C3_ExpiredOrAbsentResolvesNothing ==
    [][ last'.log \in {"stored", "no_image", "error"} =>
        \A msg \in ClaimsWithoutMedia, outcome \in StoreOutcomes :
            ( /\ ~FreshIn(recent_image_cache, KeyOf(msg), now)
              /\ ClaimMessage(msg, outcome) )
            => /\ receipts' = receipts
               /\ events' = events
               /\ files' = files
               /\ KeyOf(msg) \notin DOMAIN recent_image_cache'
               /\ \A k \in (DOMAIN recent_image_cache) \ {KeyOf(msg)} :
                      /\ k \in DOMAIN recent_image_cache'
                      /\ recent_image_cache'[k] = recent_image_cache[k]
      ]_vars

C3_Witness ==
    /\ last.log = "no_image"
    /\ last.found = "expired"
    /\ receipts = <<>>
    /\ DOMAIN recent_image_cache = {}

\* C4 as stated: two claims without media handled at the same time never
\* both consume the same cached image: the images the claims obtained are
\* never more than the images cached.  In SpecConc every receipt and every
\* image a thread holds comes from the cache, and handled counts the
\* bare-media messages that filled it.
C4_SingleConsumer ==
    Cardinality({ t \in Threads : threads[t].url # None }) + Len(receipts) <= handled

\* The forward_to_bot calls that carried the receipt.
Deliveries(rid) ==
    Cardinality({ i \in 1..Len(delivered) : delivered[i].metadata.receipt_id = rid })

\* What the matcher answers to a query on the store as it is.
MatchNow(query) == find_match_in_db(receipts, query, top_n_default, threshold_default)

\* C5: a receipt that is marked forwarded has been handed to the operator
\* channel exactly once, however many queries followed, and no query is
\* answered with a forwarded receipt.
C5_ForwardedExactlyOnce ==
    /\ \A i \in 1..Len(receipts) :
           receipts[i].forwarded => Deliveries(receipts[i].id) = 1
    /\ \A q \in Texts :
           MatchNow(q).id # 0 =>
               \E i \in 1..Len(receipts) :
                   receipts[i].id = MatchNow(q).id /\ ~receipts[i].forwarded

\* The same query again, after the receipt it matched was forwarded.
C5_Witness ==
    /\ last.log = "no_match"
    /\ Len(receipts) = 1
    /\ receipts[1].forwarded
    /\ ScoreTable[last.query, receipts[1].customer_name] >= MATCH_THRESHOLD
    /\ Deliveries(receipts[1].id) = 1

\* Marking a forwarded receipt again changes nothing.
MarkIsNoOp(rs) ==
    \A i \in 1..Len(rs) :
        rs[i].forwarded => mark_receipt_forwarded(rs, rs[i].id) = rs

\* C6: in every step a forwarded receipt stays forwarded, no receipt leaves
\* the store, no field of a receipt but forwarded changes, and marking a
\* forwarded receipt again changes nothing.
C6_ForwardedMonotonic ==
    [][ /\ Len(receipts') >= Len(receipts)
        /\ \A i \in 1..Len(receipts) :
               /\ receipts'[i] = [receipts[i] EXCEPT !.forwarded = receipts'[i].forwarded]
               /\ receipts[i].forwarded => receipts'[i].forwarded
        /\ MarkIsNoOp(receipts)
        /\ MarkIsNoOp(receipts')
      ]_vars

\* A claim stored after an earlier receipt was forwarded.
C6_Witness ==
    /\ last.log = "stored"
    /\ Len(receipts) = 2
    /\ receipts[1].forwarded
    /\ ~receipts[2].forwarded

\* The ids of the receipts whose forwarded flag the step sets.
Flipped ==
    { receipts[i].id : i \in { j \in 1..Len(receipts) :
                                 ~receipts[j].forwarded /\ receipts'[j].forwarded } }

\* What decrypt_image gives for the receipt's file as the disk returns it.
Opened(receipt_row, rd) ==
    decrypt_bytes(cipher_suite,
        IF rd = "tampered" THEN Tampered(files[receipt_row.image_path])
        ELSE files[receipt_row.image_path])

\* C7: a step sets a receipt's forwarded flag only when the receipt's file
\* was there, decrypt_image returned, and forward_to_bot returned, and that
\* step hands the opened image to the operator channel; a query whose
\* forward fails in one of these leaves every receipt as it was, the matched
\* one still in the pool.
C7_ForwardedOnlyAfterDelivery ==
    [][ /\ Flipped # {} => last'.log = "forwarded"
        /\ last'.log \in {"forwarded", "file_missing", "forward_failed"} =>
               \A msg \in Queries, rd \in ReadOutcomes, deliver_ok \in BOOLEAN :
                   QueryMessage(msg, rd, deliver_ok) =>
                       LET r == get_receipt_by_id(receipts, MatchNow(msg.body).id)[1]
                           fine == rd # "missing" /\ Opened(r, rd).ok /\ deliver_ok
                       IN  /\ Flipped # {} =>
                                  /\ fine
                                  /\ Flipped = {r.id}
                                  /\ Len(delivered') = Len(delivered) + 1
                                  /\ delivered'[Len(delivered')].image = Opened(r, rd).data
                                  /\ delivered'[Len(delivered')].metadata.receipt_id = r.id
                           /\ ~fine =>
                                  /\ receipts' = receipts
                                  /\ delivered' = delivered
                                  /\ last'.log # "forwarded"
                                  /\ \E i \in 1..Len(get_unforwarded_receipts(receipts')) :
                                         get_unforwarded_receipts(receipts')[i].id = r.id
      ]_vars

\* A forward that failed under a configured key: the receipt is not marked.
C7_Witness ==
    /\ last.log = "forward_failed"
    /\ cipher_suite
    /\ Len(receipts) = 1
    /\ ~receipts[1].forwarded
    /\ delivered = <<>>
    /\ MatchNow(last.query).id = receipts[1].id

\* The unforwarded receipts, in creation order.
PoolNow == get_unforwarded_receipts(receipts)

\* The greatest score a candidate of the pool has for the query (0: no candidate).
MaxScore(pool, query) ==
    IF pool = <<>> THEN 0
    ELSE LET scores == { ScoreTable[query, pool[i].customer_name] : i \in 1..Len(pool) }
         IN  CHOOSE m \in scores : \A x \in scores : x <= m

\* The first candidate of the pool that has the greatest score.
EarliestBest(pool, query) ==
    pool[CHOOSE i \in 1..Len(pool) :
            /\ ScoreTable[query, pool[i].customer_name] = MaxScore(pool, query)
            /\ \A j \in 1..(i - 1) :
                   ScoreTable[query, pool[j].customer_name] < MaxScore(pool, query)]

\* The step hands the receipt to the operator channel and marks it.
ForwardedInStep(rid) ==
    /\ Flipped = {rid}
    /\ Len(delivered') = Len(delivered) + 1
    /\ delivered'[Len(delivered')].metadata.receipt_id = rid

QueryLogs == {"forwarded", "file_missing", "forward_failed", "no_match", "match_gone"}

FirstN(seq, n) == SubSeq(seq, 1, IF Len(seq) < n THEN Len(seq) ELSE n)

\* The unforwarded receipts in ascending creation order.
UnforwardedByCreation == SelectSeq(receipts, LAMBDA r : ~r.forwarded)

\* The limits the matcher is asked for: the smallest one and the default.
Limits == { 1, top_n_default }

C13_LastImageWins ==
    [][ last'.log = "cached" =>
            \A msg \in BareMedia :
                BareMediaMessage(msg) =>
                    /\ DOMAIN recent_image_cache' = DOMAIN recent_image_cache \cup {KeyOf(msg)}
                    /\ KeyOf(msg) \in DOMAIN recent_image_cache =>
                           Cardinality(DOMAIN recent_image_cache')
                               = Cardinality(DOMAIN recent_image_cache)
                    /\ \A k \in DOMAIN recent_image_cache' \ {KeyOf(msg)} :
                           recent_image_cache'[k] = recent_image_cache[k]
                    /\ cache_take(recent_image_cache', KeyOf(msg), now').url = msg.fileUrl
      ]_vars

\* A second image from a key replaced the one the cache held for it.
C13_Witness ==
    /\ last.log = "cached"
    /\ last.found = "replaced"
    /\ handled = 2
    /\ \E k \in DOMAIN recent_image_cache : recent_image_cache[k].url = U2

\* The step handles the message.
Handles(msg) ==
    \/ SkipMessage(msg)
    \/ BareMediaMessage(msg)
    \/ EmptyMessage(msg)
    \/ \E outcome \in StoreOutcomes : ClaimMessage(msg, outcome)
    \/ \E rd \in ReadOutcomes, deliver_ok \in BOOLEAN : QueryMessage(msg, rd, deliver_ok)

\* The step drops the message: nothing but the log changes.
Dropped ==
    /\ last'.log = "skipped"
    /\ UNCHANGED <<recent_image_cache, receipts, events, files, delivered>>

\* The messages whose group identifier does not end with "@g.us".
WithoutSuffix == { msg \in ScopeMessages : ~is_group_chat_by_suffix(msg.from) }

\* C14 as stated: a message whose group identifier is absent, is not a
\* string or does not end with "@g.us" is dropped: no cache entry written or
\* consumed, no receipt, no match, no forward.
C14_Original ==
    [][ handled' # handled =>
            \A msg \in WithoutSuffix : Handles(msg) => Dropped
      ]_vars

\* The chat ids of ScopeOrigins with "@g.us" somewhere in them.
WithMarker == {G1, G3, MarkerInside}

MarkerFree == { msg \in ScopeMessages : msg.from \notin WithMarker }
MarkerHolding == { msg \in ScopeMessages : msg.from \in WithMarker }

\* C14, amended: a message is processed if and only if its group identifier
\* is a string that contains "@g.us"; every other message is dropped: no
\* cache entry written or consumed, no receipt, no match, no forward.
C14_ScopeByContainedMarker ==
    [][ handled' # handled =>
            /\ \A msg \in MarkerFree : Handles(msg) => Dropped
            /\ last'.log = "skipped" => \A msg \in MarkerHolding : ~Handles(msg)
      ]_vars

\* An image of a chat whose id has the marker inside, not at the end, is cached.
C14_Witness ==
    /\ last.log = "cached"
    /\ <<MarkerInside, S1>> \in DOMAIN recent_image_cache

\* The messages without a sender or of a group that is not monitored.
Unmonitored ==
    { msg \in ScopeMessages : msg.author = None \/ msg.from \notin MONITORED_GROUPS }

\* C15 as stated: a message without a sender, or of a group that is not a
\* monitored group, is discarded before the state machine.
C15_OnlyMonitoredGroups ==
    [][ handled' # handled =>
            \A msg \in Unmonitored : Handles(msg) => Dropped
      ]_vars

\* C11 as stated: a failure while one message of a delivery is processed
\* never keeps the messages after it from being processed: the handler does
\* not fail, and when it has ended every message of the delivery was reached.
C11_BatchIsolation ==
    /\ batch.status # "failed"
    /\ batch.status \in {"processed", "failed"} => batch.idx > Len(batch.msgs)

\* C16: opening what was sealed gives the input back, the empty byte string
\* included, with a key and without one; without a key the sealed bytes are
\* the input and the opened bytes are the sealed ones.
C16_OpenOfSealIsIdentity ==
    probe.fn = "seal" =>
        /\ probe.stage = "opened" =>
               probe.out = [ok |-> TRUE, data |-> probe.arg]
        /\ (~cipher_suite /\ probe.stage \in {"sealed", "opened"}) =>
               probe.token = probe.arg
        /\ (~cipher_suite /\ probe.stage = "opened") =>
               probe.out.data = probe.token

\* The empty byte string went through seal and open under a key.
C16_Witness ==
    /\ probe.fn = "seal"
    /\ probe.stage = "opened"
    /\ cipher_suite
    /\ probe.arg = <<>>
    /\ probe.token # probe.arg

\* The payload is one of the supported shapes and embeds a message.
EmbedsMessage(p) ==
    /\ p.top = "obj"
    /\ \/ p.event = "message"
       \/ p.messages = "list" /\ Count(p.items, {"msg"}) > 0
       \/ /\ p.messages # "list" /\ p.event = "message_create" /\ p.data = "list"
          /\ Count(p.items, {"msg", "wrapped"}) > 0
       \/ /\ p.messages # "list" /\ p.event = "unread_count" /\ p.data = "list"
          /\ Count(p.items, {"wrapped"}) > 0

\* C12 as stated: the normalizer raises for no JSON value, and for a
\* supported shape that embeds a message it returns at least one message.
C12_NormalizerNeverRaises ==
    (probe.fn = "extract" /\ probe.done) =>
        /\ ~probe.out.raised
        /\ EmbedsMessage(probe.arg) => probe.out.n >= 1

\* The candidates hold a string and nothing else is known of the others.
Holds(lm, v) == \E i \in 1..Len(candidates(lm)) : candidates(lm)[i] = v

\* C17 as stated: when the candidate fields hold a string of 300 base64
\* characters and a shorter human-readable caption, the caption is the text
\* the normalizer chooses, whichever field holds which.
C17_CaptionBeatsBase64 ==
    (probe.fn = "normalize" /\ probe.done /\ Holds(probe.arg, B300) /\ Holds(probe.arg, Caption)) =>
        probe.out.body = Caption

\* The candidates that are strings with something left once stripped.
NonEmpty(lm) ==
    { i \in 1..Len(candidates(lm)) :
          candidates(lm)[i].t = "str" /\ strip(candidates(lm)[i]).len > 0 }

\* C18 as stated: when every non-empty candidate looks like base64, the
\* text is the shortest non-empty candidate.
C18_FallbackIsShortest ==
    ( /\ probe.fn = "normalize" /\ probe.done
      /\ NonEmpty(probe.arg) # {}
      /\ \A i \in NonEmpty(probe.arg) : looks_like_base64_image(candidates(probe.arg)[i]) ) =>
        \A i \in NonEmpty(probe.arg) : probe.out.body.len <= candidates(probe.arg)[i].len

\* C19: the worker sends in enqueue order, one task at a time: when the send
\* of a task starts, the send of every task enqueued before it has ended,
\* sent or failed, whatever the mix of document and message tasks.
C19_SendsInEnqueueOrder ==
    worker.pc # "none" =>
        \A j \in 1..Len(worker.log) :
            worker.log[j].ev = "start" =>
                \A a \in 1..(worker.log[j].id - 1) :
                    \E i \in 1..(j - 1) :
                        /\ worker.log[i].id = a
                        /\ worker.log[i].ev \in {"sent", "failed"}

\* A document send failed and the message enqueued after it is being sent.
C19_Witness ==
    /\ worker.pc = "send"
    /\ Len(worker.log) = 3
    /\ worker.log[1] = [ev |-> "start", id |-> 1, type |-> "document"]
    /\ worker.log[2] = [ev |-> "failed", id |-> 1, type |-> "document"]
    /\ worker.log[3] = [ev |-> "start", id |-> 2, type |-> "message"]

\* C20: no enqueued task is silently discarded: once the worker thread has
\* left its loop, no task that was enqueued before stop() was called is
\* still waiting in the queue.
C20_NoTaskDiscarded ==
    worker.pc = "exited" =>
        \A k \in 1..Len(worker.q) :
            worker.q[k] # Sentinel => worker.q[k].id > worker.stop_mark

\* The in-scope messages by what they carry.
InScope == { m \in ScopeMessages : is_group_chat(m.from) }
WithClaim(msg) == NameAfterKeyword(msg.body) # <<>>
MediaNoClaim(msg) == ~WithClaim(msg) /\ msg.fileUrl # None
TextOnly(msg) == ~WithClaim(msg) /\ msg.fileUrl = None /\ msg.body # <<>>
Bare(msg) == msg.fileUrl = None /\ msg.body = <<>>

ClaimLogs == {"stored", "no_image", "error"}

\* No cache entry is added or replaced in the step.
NoCacheWrite ==
    \A k \in DOMAIN recent_image_cache' :
        /\ k \in DOMAIN recent_image_cache
        /\ recent_image_cache'[k] = recent_image_cache[k]

\* The step neither runs the matcher nor forwards or marks a receipt.
NoMatcherRun ==
    /\ last'.log \notin QueryLogs
    /\ delivered' = delivered
    /\ Flipped = {}

C22_DeliveredAtMostOnce ==
    \A i \in 1..Len(receipts) : Deliveries(receipts[i].id) <= 1

\* The cache holds an entry for the key that is older than the TTL.
Expired(key) ==
    /\ key \in DOMAIN recent_image_cache
    /\ now - recent_image_cache[key].timestamp > CACHE_EXPIRATION_SECONDS

\* C23: a cache entry that has become older than the TTL is eventually
\* removed, also when no claim for its key ever arrives.
C23_ExpiredEntryEventuallyRemoved ==
    Expired(QuietKey) ~> ~Expired(QuietKey)

\* events' is events with rows appended: no row is changed or removed.
EventsOnlyAppended ==
    /\ Len(events') >= Len(events)
    /\ SubSeq(events', 1, Len(events)) = events

\* C24: every step in which a receipt's forwarded flag goes from false to
\* true appends one match_forwarded audit event, and no step changes or
\* removes an audit event.
C24_ForwardIsAudited ==
    [][ /\ EventsOnlyAppended
        /\ Flipped # {} =>
               /\ Len(events') = Len(events) + 1
               /\ events'[Len(events')].action = "match_forwarded"
      ]_vars

\* C25: every claim that produces no receipt, because no image was resolved
\* or because download, seal or persist raised, appends one audit event.
C25_DroppedClaimIsAudited ==
    [][ (handled' # handled /\ last'.log \in {"no_image", "error"}) =>
            /\ receipts' = receipts
            /\ Len(events') = Len(events) + 1
      ]_vars

\* The tasks enqueued and not yet taken by the worker thread.
Pending == Cardinality({ k \in 1..Len(worker.q) : worker.q[k] # Sentinel })

\* The capacities a run of MaxTasks enqueues can tell from no capacity.
QueueCapacities == 1..(MaxTasks - 1)

\* C26: the worker's queue is bounded: there is a capacity that the number
\* of tasks enqueued and not yet processed never exceeds, however fast the
\* enqueues come relative to the sends.
C26_QueueBounded ==
    worker.pc # "none" => \E cap \in QueueCapacities : Pending <= cap

\* The entries of the other keys are the same after the step.
OtherKeysUntouched(key) ==
    \A k \in (DOMAIN recent_image_cache) \ {key} :
        /\ k \in DOMAIN recent_image_cache'
        /\ recent_image_cache'[k] = recent_image_cache[k]

\* The image of the receipt the step added, as the store gives it back.
NewImage == decrypt_bytes(cipher_suite, files'[NewReceipt.image_path])

\* C27: the image of a receipt is the media attached to the claim that
\* created it or, for a claim without media, the image that the cache holds
\* for the claim's own (group, sender), which only a bare-media message of
\* that key writes; a claim changes no entry of another sender or group.
C27_ImageFromOwnKey ==
    [][ /\ last'.log \in ClaimLogs =>
               \A msg \in ClaimsWithMedia \cup ClaimsWithoutMedia, outcome \in StoreOutcomes :
                   ClaimMessage(msg, outcome) =>
                       /\ OtherKeysUntouched(KeyOf(msg))
                       /\ receipts' # receipts =>
                              /\ OneNewReceipt
                              /\ msg.fileUrl # None =>
                                     NewImage = [ok |-> TRUE, data |-> Content(msg.fileUrl)]
                              /\ msg.fileUrl = None =>
                                     /\ KeyOf(msg) \in DOMAIN recent_image_cache
                                     /\ NewImage = [ok |-> TRUE, data |->
                                            Content(recent_image_cache[KeyOf(msg)].url)]
        /\ last'.log = "cached" =>
               \A msg \in BareMedia :
                   BareMediaMessage(msg) =>
                       /\ OtherKeysUntouched(KeyOf(msg))
                       /\ recent_image_cache'[KeyOf(msg)].url = msg.fileUrl
      ]_vars

\* A claim without media got its own sender's image while another sender's
\* different image stayed in the cache.
C27_Witness ==
    /\ last.log = "stored"
    /\ last.found = "hit"
    /\ Len(receipts) = 1
    /\ \E k \in DOMAIN recent_image_cache :
           /\ k[1] = receipts[1].source_group
           /\ decrypt_bytes(cipher_suite, files[receipts[1].image_path]).data
                  # Content(recent_image_cache[k].url)

\* C28: a claim that consumes a fresh cache entry and then fails in the
\* download, the seal or the write creates no receipt and does not put the
\* entry back: the same claim repeated resolves no image, and only a
\* bare-media message of the key gives the key an entry again.
C28_FailedClaimLosesImage ==
    [][ /\ last'.log = "error" =>
               \A msg \in ClaimsWithoutMedia, outcome \in StoreOutcomes \ {"ok"} :
                   ( /\ FreshIn(recent_image_cache, KeyOf(msg), now)
                     /\ ClaimMessage(msg, outcome) )
                   => /\ receipts' = receipts
                      /\ events' = events
                      /\ KeyOf(msg) \notin DOMAIN recent_image_cache'
                      /\ cache_take(recent_image_cache', KeyOf(msg), now').url = None
        /\ (DOMAIN recent_image_cache') \ (DOMAIN recent_image_cache) # {} =>
               /\ last'.log = "cached"
               /\ \E msg \in BareMedia :
                      /\ BareMediaMessage(msg)
                      /\ (DOMAIN recent_image_cache') \ (DOMAIN recent_image_cache)
                             = {KeyOf(msg)}
      ]_vars

\* A claim took the fresh image of its key and failed to store it: no
\* receipt, and no entry left.
C28_Witness ==
    /\ last.log = "error"
    /\ last.found = "hit"
    /\ receipts = <<>>
    /\ files = <<>>
    /\ DOMAIN recent_image_cache = {}

\* C29: a claim with media attached leaves the cache as it is: an entry
\* cached for the claim's (group, sender) is neither consumed nor removed,
\* and a claim without media from that key, within the TTL, still gets it.
C29_AttachedClaimKeepsCache ==
    [][ last'.log \in ClaimLogs =>
            \A msg \in ClaimsWithMedia, outcome \in StoreOutcomes :
                ClaimMessage(msg, outcome) =>
                    /\ recent_image_cache' = recent_image_cache
                    /\ FreshIn(recent_image_cache, KeyOf(msg), now) =>
                           cache_take(recent_image_cache', KeyOf(msg), now').url
                               = recent_image_cache[KeyOf(msg)].url
      ]_vars

\* A claim with media from a group was stored while both senders of that
\* group, the claim's own among them, still have their image cached.
C29_Witness ==
    /\ last.log = "stored"
    /\ last.found = "attached"
    /\ receipts[Len(receipts)].source_group = G1
    /\ {<<G1, S1>>, <<G1, S2>>} \subseteq DOMAIN recent_image_cache

====
